---- MODULE Spec2Model ----
(***************************************************************************)
(* Model of the Keras dialogue policy lifecycle of                         *)
(* rasa_core/policies/keras_policy.py: construction, architecture          *)
(* selection, train, continue_training, predict_action_probabilities,      *)
(* persist and load, together with the backend's default graph and the     *)
(* model directory on disk.                                                *)
(*                                                                         *)
(* The second part models convert_to_data_format of                        *)
(* rasa/utils/tensorflow/model_data_utils.py with its helpers: surfacing   *)
(* of the attributes, the featurizer filter, fake features, masks and      *)
(* FeatureArrays, in training and in prediction mode.                      *)
(*                                                                         *)
(* Python values are modelled as follows.  None is a record with           *)
(* present = FALSE (a model), the value NoGraph (a graph) or NoneDim (a    *)
(* dimension of a shape).  A tuple is a sequence.  A numpy array is a      *)
(* record of its shape and its rows, indexed from 0 as in the source.  A   *)
(* raised exception is the name of its class in the field err of the       *)
(* outcome of the call; "" means the call returned.                        *)
(***************************************************************************)
EXTENDS Integers, Sequences, FiniteSets, TLC

\* ---------------------------------------------------------------- bounds
NumWeights == 2
MaxEpoch == 3
MaxTrainEpochs == 2
MaxTurns == 2
MaxRank == 3
MaxDim == 3
NumFeatures == 4
NumActions == 3
MaxTotalTurns == 3
MaxBuilds == 2

\* the tf.Graph objects of the process
Graphs == {"g1", "g2"}
WeightValues == 1..NumWeights

\* ------------------------------------------------------- program constants
n_hidden == 32
NoGraph == "None"
NoneDim == 0
InitialWeights == 0

ARCH_FILE == "keras_arch.json"
WEIGHTS_FILE == "keras_weights.h5"
CONFIG_FILE == "keras_policy.json"

VARIABLES
    backend,        \* keras.backend._BACKEND of the process
    default_graph,  \* tf.get_default_graph() of the process
    policy,         \* the KerasPolicy instance the caller holds
    disk,           \* the model directory `path`
    lastOp,         \* the last call made and its outcome
    featurizer_filter,  \* the featurizers list a caller of convert_to_data_format holds
    build           \* the arguments and the outcome of convert_to_data_format

vars == <<backend, default_graph, policy, disk, lastOp,
         featurizer_filter, build>>

\* ------------------------------------------------------------ keras models
\* self.model is None
NoModel ==
    [present |-> FALSE, kind |-> "none", input_shape |-> <<>>, units |-> 0,
     hidden |-> 0, weights |-> 0, graph |-> NoGraph]

\* the graph a keras layer is created in: the default graph of the
\* tensorflow backend, no graph at all on another backend
BuildGraph == IF backend = "tensorflow" THEN default_graph ELSE NoGraph

\* A compiled Sequential model with freshly initialised weights.  kind names the layer stack:
\*   "single_step": Masking, LSTM, Dense, softmax
\*   "per_turn":    Masking, LSTM(return_sequences), TimeDistributed(Dense), softmax
\*   "custom":      a model a caller built and handed to the constructor
Sequential(kind, input_shape, units) ==
    [present |-> TRUE, kind |-> kind, input_shape |-> input_shape,
     units |-> units, hidden |-> n_hidden, weights |-> InitialWeights,
     graph |-> BuildGraph]

\* the models a caller can build itself and pass as `model`
CallerModels ==
    { [present |-> TRUE, kind |-> k, input_shape |-> <<NoneDim, NumFeatures>>,
       units |-> NumActions, hidden |-> n_hidden, weights |-> w,
       graph |-> BuildGraph] :
         k \in {"custom"}, w \in WeightValues }

\* the rank of the array model.predict returns
OutputRank(model) ==
    CASE model.kind = "single_step" -> 2
      [] model.kind = "per_turn" -> 3
      [] OTHER -> 4

\* ------------------------------------------------------------ the instance
NoPolicy ==
    [live |-> FALSE, graph |-> NoGraph, model |-> NoModel, current_epoch |-> 0]

is_using_tensorflow == backend = "tensorflow"

\* KerasPolicy.__init__
KerasPolicy(model, graph, current_epoch) ==
    [live |-> TRUE,
     graph |-> IF is_using_tensorflow /\ graph = NoGraph
               THEN default_graph
               ELSE graph,
     model |-> model,
     current_epoch |-> current_epoch]

\* KerasPolicy.max_len
max_len(self) ==
    IF self.model.present THEN self.model.input_shape[1] ELSE NoneDim

\* the outcome recorded for a call; the fields a call does not set keep
\* these values
Op(name) ==
    [name |-> name, err |-> "", warned |-> FALSE,
     n |-> 0 - 1, kwargs |-> [has_epochs |-> FALSE, epochs |-> 0],
     shape |-> <<>>, built |-> "none",
     fit_initial_epoch |-> 0, fit_epochs |-> 0, fitted |-> FALSE,
     entered |-> NoGraph, length |-> 0,
     ret |-> [kind |-> "none", val |-> <<>>]]

\* ---------------------------------------------------- model_architecture
model_architecture_strict(input_shape, output_shape) ==
    IF Len(output_shape) = 1
    THEN [err |-> "",
          model |-> Sequential("single_step", input_shape,
                               output_shape[Len(output_shape)])]
    ELSE IF Len(output_shape) = 2 /\ output_shape[1] = NoneDim
    THEN [err |-> "",
          model |-> Sequential("per_turn", <<NoneDim, input_shape[2]>>,
                               output_shape[Len(output_shape)])]
    ELSE [err |-> "ValueError", model |-> NoModel]

\* KerasPolicy.model_architecture
model_architecture(input_shape, output_shape) ==
    IF Len(output_shape) = 1
    THEN [err |-> "",
          model |-> Sequential("single_step", input_shape,
                               output_shape[Len(output_shape)])]
    ELSE IF Len(output_shape) = 2
    THEN [err |-> "",
          model |-> Sequential("per_turn", <<NoneDim, input_shape[2]>>,
                               output_shape[Len(output_shape)])]
    ELSE [err |-> "ValueError", model |-> NoModel]

\* the output shapes a caller of model_architecture passes: every tuple of
\* at most MaxRank entries, each None or a number
OutputShapes ==
    UNION { [1..r -> {NoneDim} \cup 1..MaxDim] : r \in 0..MaxRank }

\* y.shape[1:] of the featurized trackers: one label per dialogue or one per
\* turn; for an empty list of trackers also the shape of an empty array
LabelShapes(n) ==
    IF n = 0
    THEN { <<>>, <<NumActions>> }
    ELSE { <<NumActions>>, <<MaxTurns, NumActions>> }

\* X.shape[1:]
InputShape == <<MaxTurns, NumFeatures>>

\* keras Sequential.fit: raises when the backend rejects the call (raises);
\* otherwise it runs the epochs initial_epoch .. epochs-1 and the weights
\* become w1.
fit(model, initial_epoch, epochs, w1, raises) ==
    IF raises THEN [err |-> "FitError", model |-> model]
    ELSE [err |-> "",
          model |-> IF epochs > initial_epoch
                    THEN [model EXCEPT !.weights = w1]
                    ELSE model]

\* kwargs of train: with or without the key "epochs"
TrainKwargs ==
    { [has_epochs |-> FALSE, epochs |-> 0] } \cup
    { [has_epochs |-> TRUE, epochs |-> e] : e \in 1..MaxTrainEpochs }

\* kwargs.get("epochs", default)
kwargs_get_epochs(kwargs, default) ==
    IF kwargs.has_epochs THEN kwargs.epochs ELSE default

\* the trackers handed to predict: the real number of turns, and the number
\* of turns the featurizer pads the dialogue to
Trackers == { [length |-> l, padded |-> MaxTurns] : l \in 1..MaxTurns }

\* the lists of trackers handed to train, by their length: empty or not
TrackerListLengths == {0, 1}

\* ---------------------------------------------------------------- train
train_reset_on_error(self, out_shape, kwargs, w1, raises) ==
    LET built == model_architecture(InputShape, out_shape)
        epochs == kwargs_get_epochs(kwargs, 1)
        f == fit(built.model, 0, epochs, w1, raises)
    IN  IF built.err # ""
        THEN [self |-> [self EXCEPT !.model = NoModel], err |-> built.err,
              fitted |-> FALSE]
        ELSE IF f.err # ""
        THEN [self |-> [self EXCEPT !.model = built.model], err |-> f.err,
              fitted |-> FALSE]
        ELSE [self |-> [self EXCEPT !.model = f.model,
                                    !.current_epoch = epochs],
              err |-> "", fitted |-> TRUE]

\* KerasPolicy.train.  out_shape is y.shape[1:] of the featurized trackers,
\* w1 the fitted weights, raises whether fit raises.
train(self, out_shape, kwargs, w1, raises) ==
    LET built == model_architecture(InputShape, out_shape)
        epochs == kwargs_get_epochs(kwargs, 1)
        f == fit(built.model, 0, epochs, w1, raises)
    IN  IF built.err # ""
        THEN [self |-> self, err |-> built.err, fitted |-> FALSE]
        ELSE IF f.err # ""
        THEN [self |-> [self EXCEPT !.model = built.model], err |-> f.err,
              fitted |-> FALSE]
        ELSE [self |-> [self EXCEPT !.model = f.model,
                                    !.current_epoch = epochs],
              err |-> "", fitted |-> TRUE]

\* ---------------------------------------------------- continue_training
continue_training_no_increment(self, w1, raises) ==
    LET f == fit(self.model, self.current_epoch + 1, self.current_epoch + 2,
                 w1, raises)
    IN  IF ~self.model.present
        THEN [self |-> self, err |-> "AttributeError",
              fit_initial_epoch |-> 0, fit_epochs |-> 0, fitted |-> FALSE]
        ELSE [self |-> [self EXCEPT !.model = f.model],
              err |-> f.err,
              fit_initial_epoch |-> self.current_epoch + 1,
              fit_epochs |-> self.current_epoch + 2,
              fitted |-> f.err = ""]

\* KerasPolicy.continue_training: the counter is incremented first, then
\* self.model.fit is called with the incremented counter
continue_training(self, w1, raises) ==
    LET bumped == [self EXCEPT !.current_epoch = @ + 1]
        f == fit(bumped.model, bumped.current_epoch,
                 bumped.current_epoch + 1, w1, raises)
    IN  IF ~bumped.model.present
        THEN [self |-> bumped, err |-> "AttributeError",
              fit_initial_epoch |-> 0, fit_epochs |-> 0, fitted |-> FALSE]
        ELSE [self |-> [bumped EXCEPT !.model = f.model],
              err |-> f.err,
              fit_initial_epoch |-> bumped.current_epoch,
              fit_epochs |-> bumped.current_epoch + 1,
              fitted |-> f.err = ""]

\* ------------------------------------------ predict_action_probabilities
\* the distribution the model with weights w computes for entry b of the
\* batch at turn t
Row(w, b, t) == <<w, b, t>>

\* model.predict(X, batch_size=1) for X of `batch` dialogues padded to
\* `padded` turns: an array of rank OutputRank(model), rows indexed from 0
model_predict(model, batch, padded) ==
    CASE OutputRank(model) = 2 ->
            [shape |-> <<batch, model.units>>,
             rows |-> [b \in 0..(batch - 1) |->
                         [t \in {0} |-> Row(model.weights, b, padded - 1)]]]
      [] OutputRank(model) = 3 ->
            [shape |-> <<batch, padded, model.units>>,
             rows |-> [b \in 0..(batch - 1) |->
                         [t \in 0..(padded - 1) |-> Row(model.weights, b, t)]]]
      [] OTHER ->
            [shape |-> <<batch, padded, 1, model.units>>,
             rows |-> [b \in 0..(batch - 1) |->
                         [t \in 0..(padded - 1) |-> Row(model.weights, b, t)]]]

\* the graph the `with self.graph.as_default()` block enters, NoGraph when
\* the block is not taken
graph_entered(self) ==
    IF is_using_tensorflow /\ self.graph # NoGraph THEN self.graph ELSE NoGraph

\* the graph that is current while self.model.predict runs
graph_in_scope(self) ==
    IF graph_entered(self) # NoGraph THEN graph_entered(self) ELSE BuildGraph

\* what the return statements of predict_action_probabilities select
select_row(y_pred, lengths) ==
    IF Len(y_pred.shape) = 2
    THEN [kind |-> "list", val |-> y_pred.rows[y_pred.shape[1] - 1][0]]
    ELSE IF Len(y_pred.shape) = 3
    THEN [kind |-> "list", val |-> y_pred.rows[0][lengths[0] - 1]]
    ELSE [kind |-> "None", val |-> <<>>]

\* KerasPolicy.predict_action_probabilities; self is not assigned to
predict_action_probabilities(self, tracker) ==
    LET lengths == [i \in {0} |-> tracker.length]
        y_pred == model_predict(self.model, 1, tracker.padded)
    IN  IF ~self.model.present
        THEN [self |-> self, err |-> "AttributeError", entered |-> NoGraph,
              ret |-> [kind |-> "none", val |-> <<>>]]
        ELSE IF is_using_tensorflow /\ graph_in_scope(self) # self.model.graph
        THEN [self |-> self, err |-> "ValueError",
              entered |-> graph_entered(self),
              ret |-> [kind |-> "none", val |-> <<>>]]
        ELSE [self |-> self, err |-> "", entered |-> graph_entered(self),
              ret |-> select_row(y_pred, lengths)]

\* ------------------------------------------------------- persist and load
NoArchFile == [present |-> FALSE, kind |-> "none", input_shape |-> <<>>,
               units |-> 0, hidden |-> 0]
NoConfigFile == [present |-> FALSE, arch |-> "", weights |-> "", epochs |-> 0]
NoWeightsFile == [present |-> FALSE, weights |-> 0]

\* the model directory before anything created it
NoDirectory ==
    [exists |-> FALSE, arch |-> NoArchFile, config |-> NoConfigFile,
     weights |-> NoWeightsFile]

\* model.to_json(): the layer stack, without weights, compilation or graph
to_json(model) ==
    [present |-> TRUE, kind |-> model.kind, input_shape |-> model.input_shape,
     units |-> model.units, hidden |-> model.hidden]

\* keras model_from_json: a model with freshly initialised weights, created
\* in the current graph
model_from_json(json) ==
    [present |-> TRUE, kind |-> json.kind, input_shape |-> json.input_shape,
     units |-> json.units, hidden |-> json.hidden,
     weights |-> InitialWeights, graph |-> BuildGraph]

\* KerasPolicy._persist_configuration
_persist_configuration(self) ==
    [present |-> TRUE, arch |-> ARCH_FILE, weights |-> WEIGHTS_FILE,
     epochs |-> self.current_epoch]

\* Policy.persist of the base class
Policy_persist(self, dir) == dir

persist_unguarded(self, dir, written) ==
    LET d0 == [Policy_persist(self, dir) EXCEPT !.exists = TRUE]
        d1 == [d0 EXCEPT !.arch = to_json(self.model)]
        d2 == [d1 EXCEPT !.config = _persist_configuration(self)]
        d3 == [d2 EXCEPT !.weights = [present |-> TRUE,
                                      weights |-> self.model.weights]]
    IN  [dir |-> CASE written = 0 -> d0 [] written = 1 -> d1
                   [] written = 2 -> d2 [] OTHER -> d3,
         err |-> IF written < 3 THEN "IOError" ELSE "",
         warned |-> FALSE]

\* KerasPolicy.persist.  written is the number of files written before a
\* write fails with an IOError; 3 when no write fails.
persist(self, dir, written) ==
    LET d0 == [Policy_persist(self, dir) EXCEPT !.exists = TRUE]
        d1 == [d0 EXCEPT !.arch = to_json(self.model)]
        d2 == [d1 EXCEPT !.config = _persist_configuration(self)]
        d3 == [d2 EXCEPT !.weights = [present |-> TRUE,
                                      weights |-> self.model.weights]]
    IN  IF self.model.present
        THEN [dir |-> CASE written = 0 -> d0 [] written = 1 -> d1
                        [] written = 2 -> d2 [] OTHER -> d3,
              err |-> IF written < 3 THEN "IOError" ELSE "",
              warned |-> FALSE]
        ELSE [dir |-> Policy_persist(self, dir), err |-> "", warned |-> TRUE]

\* KerasPolicy._load_model_arch; meta["arch"] names the architecture file
_load_model_arch(dir, meta) ==
    IF meta.arch = ARCH_FILE /\ dir.arch.present
    THEN model_from_json(dir.arch)
    ELSE NoModel

_load_weights_for_model_skip(dir, model, meta) == model

\* KerasPolicy._load_weights_for_model
_load_weights_for_model(dir, model, meta) ==
    IF model.present /\ meta.weights = WEIGHTS_FILE /\ dir.weights.present
    THEN [model EXCEPT !.weights = dir.weights.weights]
    ELSE model

\* KerasPolicy.load
load(dir) ==
    IF dir.exists
    THEN IF dir.config.present
         THEN [err |-> "",
               self |-> KerasPolicy(
                   _load_weights_for_model(
                       dir, _load_model_arch(dir, dir.config), dir.config),
                   NoGraph, dir.config.epochs)]
         ELSE [err |-> "", self |-> KerasPolicy(NoModel, NoGraph, 0)]
    ELSE [err |-> "Exception", self |-> NoPolicy]

\* =========================================================================
\* rasa/utils/tensorflow/model_data_utils.py: convert_to_data_format
\*
\* A dict is a function on its key set.  An Optional list is a record:
\* None has none = TRUE, a list has none = FALSE and the list in `list`.  A
\* Features object is a record of its type, attribute, origin and matrix; a
\* matrix is a record of its storage (sparse or dense) and its shape.  The
\* iteration order of a Python set is an input of the call (`order`).
\* =========================================================================
MASK == "mask"
IDS == "ids"
SENTENCE == "sentence"
SEQUENCE == "sequence"
TEXT == "text"
ENTITIES == "entities"
ENTITY_ATTRIBUTE_TYPE == "entity"
ENTITY_ATTRIBUTE_GROUP == "group"
ENTITY_ATTRIBUTE_ROLE == "role"
TAG_ID_ORIGIN == "tag_id_origin"

None == [none |-> TRUE, list |-> <<>>]
List(l) == [none |-> FALSE, list |-> l]

\* bool(x) of an Optional list: None and the empty list are falsy
truthy(x) == ~x.none /\ Len(x.list) > 0

Range(s) == {s[i] : i \in DOMAIN s}

\* a Python list built by a comprehension or a loop: its elements are
\* computed once, when the list is built
list(s) == s \o <<>>

\* max over a non-empty set of integers
max(S) == CHOOSE x \in S : \A y \in S : y <= x

\* the matrix of a Features object: scipy.sparse or numpy, rows x width
Matrix(sparse, rows, width) == [sparse |-> sparse, shape |-> <<rows, width>>]

\* Features(features, type, attribute, origin)
Features(features, type, attribute, origin) ==
    [features |-> features, type |-> type, attribute |-> attribute,
     origin |-> origin]

\* the attribute names of the model, in the order of Python's str comparison
Attributes == <<ENTITIES, TEXT>>

\* What the featurizers of the pipeline produce for a turn that carries the
\* attribute: text gets a sparse sequence and a sparse sentence matrix from
\* featurizer "f1" and a dense sentence matrix from featurizer "f2"; entities
\* get the tag ids of the entity type.
AttributeFeatures(attribute) ==
    IF attribute = TEXT
    THEN << Features(Matrix(TRUE, 2, 5), SEQUENCE, TEXT, "f1"),
            Features(Matrix(TRUE, 1, 5), SENTENCE, TEXT, "f1"),
            Features(Matrix(FALSE, 1, 3), SENTENCE, TEXT, "f2") >>
    ELSE << Features(Matrix(FALSE, 2, 1), IDS, ENTITY_ATTRIBUTE_TYPE,
                     TAG_ID_ORIGIN) >>

\* the dict of one dialogue turn: the attributes it carries with their features
TurnDicts ==
    { [a \in S |-> AttributeFeatures(a)] : S \in SUBSET Range(Attributes) }

\* the lists of examples (trackers) that have n turns in total; every
\* example has at least one turn
RECURSIVE ExampleLists(_)
ExampleLists(n) ==
    IF n = 0
    THEN {<<>>}
    ELSE UNION { { <<example>> \o rest :
                     example \in [1..k -> TurnDicts],
                     rest \in ExampleLists(n - k) } : k \in 1..n }

\* The `features` argument: a list of examples, each a list of turn dicts,
\* or the flat form, a list of dicts; at most MaxTotalTurns dicts in all.
RawFeatures ==
    { [flat |-> FALSE, items |-> s] :
        s \in UNION { ExampleLists(n) : n \in 0..MaxTotalTurns } }
    \cup
    { [flat |-> TRUE, items |-> s] :
        s \in UNION { [1..n -> TurnDicts] : n \in 1..MaxTotalTurns } }

\* lines 470-471: the flat form becomes one single-turn example per dict
unify_format(raw) ==
    IF raw.flat
    THEN [i \in DOMAIN raw.items |-> <<raw.items[i]>>]
    ELSE raw.items

\* the attribute set collected by _surface_attributes
collect_attributes(features) ==
    UNION { UNION { DOMAIN features[e][t] : t \in DOMAIN features[e] } :
              e \in DOMAIN features }

\* the orders in which a set of the elements of S can be iterated
IterationOrders(S) ==
    { o \in [1..Cardinality(S) -> S] : Range(o) = S }

\* dict.get(key)
dict_get(d, key) == IF key \in DOMAIN d THEN List(d[key]) ELSE None

\* _filter_features: ret is the returned list, featurizers the caller's list
\* after the call
_filter_features(features, featurizers) ==
    IF features.none \/ ~truthy(featurizers)
    THEN [ret |-> features, featurizers |-> featurizers]
    ELSE LET appended == Append(featurizers.list, TAG_ID_ORIGIN)
             keep(f) == f.origin \in Range(appended)
         IN  [ret |-> List(SelectSeq(features.list, keep)),
              featurizers |-> List(appended)]

\* _surface_attributes.  The cell <<e, t, i>> is the pass of the innermost
\* loop for example e, turn t and the i-th attribute of the iteration order;
\* each pass hands _filter_features the list as the passes before left it.
_surface_attributes(features, featurizers, order) ==
    LET attributes == collect_attributes(features)
        cells == UNION { { <<e, t, i>> : t \in DOMAIN features[e],
                                             i \in DOMAIN order } :
                         e \in DOMAIN features }
        before(c, d) ==
            \/ c[1] < d[1]
            \/ c[1] = d[1] /\ c[2] < d[2]
            \/ c[1] = d[1] /\ c[2] = d[2] /\ c[3] < d[3]
        got(c) == dict_get(features[c[1]][c[2]], order[c[3]])
        appends(c) == truthy(featurizers) /\ ~got(c).none
        seen(d) ==
            IF truthy(featurizers)
            THEN List(featurizers.list \o
                      [j \in 1..Cardinality({c \in cells :
                                               appends(c) /\ before(c, d)})
                          |-> TAG_ID_ORIGIN])
            ELSE featurizers
        pass(d) ==
            IF truthy(featurizers)
            THEN _filter_features(got(d), seen(d)).ret
            ELSE got(d)
        index(a) == CHOOSE i \in DOMAIN order : order[i] = a
    IN  [output |-> [a \in attributes |->
                       list([e \in DOMAIN features |->
                               list([t \in DOMAIN features[e] |->
                                       pass(<<e, t, index(a)>>)])])],
         keys |-> order,
         featurizers |->
            IF truthy(featurizers)
            THEN List(featurizers.list \o
                      [j \in 1..Cardinality({c \in cells : appends(c)})
                          |-> TAG_ID_ORIGIN])
            ELSE featurizers]

\* _create_fake_features: the first list that is not None, every matrix
\* replaced by one of zero rows and the same width
_create_fake_features(all_features) ==
    LET cells == UNION { { <<e, t>> : t \in { u \in DOMAIN all_features[e] :
                                                 ~all_features[e][u].none } } :
                         e \in DOMAIN all_features }
        first == CHOOSE c \in cells :
                    \A d \in cells :
                        c[1] < d[1] \/ (c[1] = d[1] /\ c[2] <= d[2])
        example_features == all_features[first[1]][first[2]].list
    IN  IF cells = {}
        THEN [err |-> "StopIteration", ret |-> <<>>]
        ELSE [err |-> "",
              ret |-> [i \in DOMAIN example_features |->
                         [example_features[i] EXCEPT
                            !.features =
                               Matrix(example_features[i].features.sparse, 0,
                                      example_features[i].features.shape[2])]]]

\* the concatenation of a list of lists
RECURSIVE Flatten(_)
Flatten(lists) ==
    IF lists = <<>> THEN <<>> ELSE Head(lists) \o Flatten(Tail(lists))

\* lines 636-643: the bucket key of a feature
feature_key(attribute, f) ==
    IF attribute = ENTITIES
       /\ f.attribute \in {ENTITY_ATTRIBUTE_TYPE, ENTITY_ATTRIBUTE_GROUP,
                           ENTITY_ATTRIBUTE_ROLE}
    THEN f.attribute
    ELSE f.type

attribute_mask_ones(list_of_features) == <<1>>

\* lines 622-628 and 659: the mask entry of a turn, of shape (1,)
attribute_mask_entry(list_of_features) ==
    IF list_of_features.none THEN <<0>> ELSE <<1>>

\* _extract_features: per example the mask (one entry of shape (1,) per turn)
\* and, per bucket key, the matrices of its turns in one list; a key maps to
\* the lists of the examples that have it
_extract_features(features, fake_features, attribute) ==
    LET turn(e, t) == IF features[e][t].none
                      THEN fake_features ELSE features[e][t].list
        lists == { <<e, Flatten([t \in DOMAIN features[e] |-> turn(e, t)])>> :
                     e \in DOMAIN features }
        flat(e) == (CHOOSE p \in lists : p[1] = e)[2]
        collect(sparse) ==
            [k \in { feature_key(attribute, f) :
                       f \in { g \in UNION {Range(p[2]) : p \in lists} :
                                 g.features.sparse = sparse } } |->
                LET dialogue(e) ==
                        LET pick(f) == /\ feature_key(attribute, f) = k
                                       /\ f.features.sparse = sparse
                            sel == SelectSeq(flat(e), pick)
                        IN  [i \in DOMAIN sel |-> sel[i].features]
                    filled(v) == Len(v) > 0
                IN  SelectSeq([e \in DOMAIN features |-> dialogue(e)], filled)]
    IN  [attribute_masks |->
            [e \in DOMAIN features |->
               [t \in DOMAIN features[e] |->
                  attribute_mask_entry(features[e][t])]],
         dense |-> collect(FALSE),
         sparse |-> collect(TRUE)]

\* FeatureArray(np.array(values), number_of_dimensions)
FeatureArray(values, number_of_dimensions) ==
    [values |-> values, number_of_dimensions |-> number_of_dimensions]

\* _feature_arrays_for_attribute; fake_features is the dict, fake the entry
\* of the attribute after the call
_feature_arrays_for_attribute(attribute, absent_features, attribute_to_features, training, fake_features, consider_dialogue_dimension) ==
    LET features == IF attribute \in DOMAIN attribute_to_features
                    THEN attribute_to_features[attribute]
                    ELSE absent_features
        created == IF training
                   THEN _create_fake_features(features)
                   ELSE [err |-> "", ret |-> fake_features[attribute]]
        x == _extract_features(features, created.ret, attribute)
        array(values) ==
            IF consider_dialogue_dimension
            THEN FeatureArray(values, 4)
            ELSE FeatureArray([i \in DOMAIN values |-> values[i][1]], 3)
        sparse_features == [k \in DOMAIN x.sparse |-> array(x.sparse[k])]
        dense_features == [k \in DOMAIN x.dense |-> array(x.dense[k])]
        feature_types == DOMAIN dense_features \cup DOMAIN sparse_features
    IN  IF created.err # ""
        THEN [err |-> created.err, fake |-> <<>>, ret |-> <<>>]
        ELSE [err |-> "",
              fake |-> created.ret,
              ret |-> [k \in {MASK} \cup feature_types |->
                         IF k = MASK
                         THEN <<FeatureArray(x.attribute_masks, 3)>>
                         ELSE (IF k \in DOMAIN sparse_features
                               THEN <<sparse_features[k]>> ELSE <<>>)
                              \o (IF k \in DOMAIN dense_features
                                  THEN <<dense_features[k]>> ELSE <<>>)]]

\* a < b for the attribute names, as Python compares str
str_less(a, b) ==
    \E i, j \in DOMAIN Attributes :
        Attributes[i] = a /\ Attributes[j] = b /\ i < j

sorted_as_inserted(keys) == keys

\* sorted(attribute_data.items()): the keys in ascending order
RECURSIVE sorted(_)
sorted(keys) ==
    IF keys = <<>>
    THEN <<>>
    ELSE LET m == CHOOSE i \in DOMAIN keys :
                    \A j \in DOMAIN keys : ~str_less(keys[j], keys[i])
         IN  <<keys[m]>>
             \o sorted(SubSeq(keys, 1, m - 1) \o SubSeq(keys, m + 1, Len(keys)))

\* the fake_features argument: None, or a dict with its keys in insertion order
NoFakeFeatures == [given |-> FALSE, keys |-> <<>>, map |-> <<>>]

\* an OrderedDict without entries
EmptyData == [keys |-> <<>>, map |-> <<>>]

\* convert_to_data_format(features, fake_features,
\* consider_dialogue_dimension, featurizers).  order is the iteration order of
\* the attribute set; featurizers in the outcome is the caller's list after
\* the call.
convert_to_data_format(raw, fake_features, consider_dialogue_dimension, featurizers, order) ==
    LET training == ~fake_features.given \/ Len(fake_features.keys) = 0
        features == unify_format(raw)
        s == _surface_attributes(features, featurizers, order)
        attribute_to_features == s.output
        attributes == IF training THEN s.keys ELSE fake_features.keys
        num_examples ==
            max({1} \cup { Len(attribute_to_features[a]) :
                             a \in DOMAIN attribute_to_features })
        dialogue_length ==
            max({1} \cup { Len(attribute_to_features[a][1]) :
                             a \in DOMAIN attribute_to_features })
        absent_features ==
            [e \in 1..num_examples |-> [t \in 1..dialogue_length |-> None]]
        outcomes ==
            { <<a, _feature_arrays_for_attribute(
                       a, absent_features, attribute_to_features, training,
                       fake_features.map, consider_dialogue_dimension)>> :
                a \in Range(attributes) }
        arrays(a) == (CHOOSE p \in outcomes : p[1] = a)[2]
        failed == { i \in DOMAIN attributes : arrays(attributes[i]).err # "" }
    IN  IF Len(raw.items) = 0
        THEN [err |-> "IndexError", data |-> EmptyData,
              fake_features |-> NoFakeFeatures, featurizers |-> featurizers]
        ELSE IF failed # {}
        THEN [err |-> arrays(attributes[max(failed)]).err,
              data |-> EmptyData, fake_features |-> NoFakeFeatures,
              featurizers |-> s.featurizers]
        ELSE [err |-> "",
              data |-> [keys |-> sorted(attributes),
                        map |-> [a \in Range(attributes) |-> arrays(a).ret]],
              fake_features |->
                  IF training
                  THEN [given |-> TRUE, keys |-> attributes,
                        map |-> [a \in Range(attributes) |-> arrays(a).fake]]
                  ELSE fake_features,
              featurizers |-> s.featurizers]

\* the featurizers argument of the caller: None, or the name of one featurizer
FeaturizerFilters == {None, List(<<"f1">>)}

\* the FakeFeatureSets a training call returns, each for a training set of
\* one example
TrainedFakeFeatures(filter) ==
    UNION { { convert_to_data_format(raw, NoFakeFeatures, TRUE, filter,
                                     order).fake_features :
                order \in IterationOrders(
                              collect_attributes(unify_format(raw))) } :
            raw \in { r \in RawFeatures : Len(r.items) = 1 } }

\* a call that has not been made yet, with its arguments
BuildCall(raw, fake_features, consider_dialogue_dimension) ==
    [calls |-> 0, raw |-> raw, fake_features |-> fake_features,
     consider_dialogue_dimension |-> consider_dialogue_dimension,
     err |-> "", data |-> EmptyData, fake_out |-> NoFakeFeatures]

\* no call of convert_to_data_format is in sight
NoBuild == BuildCall([flat |-> FALSE, items |-> <<>>], NoFakeFeatures, TRUE)

\* --------------------------------------------------------------- actions
Init ==
    /\ backend \in {"tensorflow", "theano"}
    /\ default_graph = "g1"
    /\ policy = NoPolicy
    /\ disk = NoDirectory
    /\ lastOp = Op("init")
    /\ featurizer_filter = None
    /\ build = NoBuild

\* the caller constructs a policy, with or without a model, and holds it
\* from now on: KerasPolicy(featurizer) or KerasPolicy(featurizer, model)
Construct ==
    \E model \in {NoModel} \cup CallerModels :
        /\ policy' = KerasPolicy(model, NoGraph, 0)
        /\ lastOp' = Op("__init__")
        /\ UNCHANGED <<backend, default_graph, disk>>
        /\ UNCHANGED <<featurizer_filter, build>>

\* the caller constructs a policy and passes the graph to use: any graph
\* without a model, the graph of the model with a model
ConstructWithGraph ==
    \E model \in {NoModel} \cup CallerModels, graph \in Graphs :
        /\ is_using_tensorflow
        /\ model.present => graph = model.graph
        /\ policy' = KerasPolicy(model, graph, 0)
        /\ lastOp' = Op("__init__")
        /\ UNCHANGED <<backend, default_graph, disk>>
        /\ UNCHANGED <<featurizer_filter, build>>

\* the caller makes another graph the default graph of the process
SetDefaultGraph ==
    \E g \in Graphs :
        /\ is_using_tensorflow
        /\ g # default_graph
        /\ default_graph' = g
        /\ lastOp' = Op("as_default")
        /\ UNCHANGED <<backend, policy, disk>>
        /\ UNCHANGED <<featurizer_filter, build>>

\* a direct call of model_architecture builds a model and returns it
ModelArchitecture ==
    \E out_shape \in OutputShapes :
        LET r == model_architecture(InputShape, out_shape)
        IN  /\ policy.live
            /\ lastOp' = [Op("model_architecture") EXCEPT
                             !.err = r.err, !.shape = out_shape,
                             !.built = r.model.kind]
            /\ UNCHANGED <<backend, default_graph, policy, disk>>
            /\ UNCHANGED <<featurizer_filter, build>>

\* train(training_trackers, domain, **kwargs).  kwargs and the outcome of
\* fit are drawn only when model_architecture returns, since a call that
\* raises there reads neither.
Train ==
    \E n \in TrackerListLengths :
      \E out_shape \in LabelShapes(n) :
      \E kwargs \in (IF model_architecture(InputShape, out_shape).err = ""
                      THEN TrainKwargs
                      ELSE {[has_epochs |-> FALSE, epochs |-> 0]}) :
      \E raises \in (IF model_architecture(InputShape, out_shape).err = ""
                      THEN BOOLEAN
                      ELSE {FALSE}) :
      \E w1 \in (IF raises THEN {InitialWeights} ELSE WeightValues) :
        LET r == train(policy, out_shape, kwargs, w1, raises)
        IN  /\ policy.live
            /\ policy' = r.self
            /\ lastOp' = [Op("train") EXCEPT
                             !.err = r.err, !.n = n, !.kwargs = kwargs,
                             !.fitted = r.fitted]
            /\ UNCHANGED <<backend, default_graph, disk>>
            /\ UNCHANGED <<featurizer_filter, build>>

\* continue_training(trackers, domain); the counter is capped at MaxEpoch
ContinueTraining ==
    \E raises \in BOOLEAN :
      \E w1 \in (IF raises THEN {InitialWeights} ELSE WeightValues) :
        LET r == continue_training(policy, w1, raises)
        IN  /\ policy.live
            /\ policy.current_epoch < MaxEpoch
            /\ policy' = r.self
            /\ lastOp' = [Op("continue_training") EXCEPT
                             !.err = r.err,
                             !.fit_initial_epoch = r.fit_initial_epoch,
                             !.fit_epochs = r.fit_epochs,
                             !.fitted = r.fitted]
            /\ UNCHANGED <<backend, default_graph, disk>>
            /\ UNCHANGED <<featurizer_filter, build>>

\* predict_action_probabilities(tracker, domain)
Predict ==
    \E tracker \in Trackers :
        LET r == predict_action_probabilities(policy, tracker)
        IN  /\ policy.live
            /\ policy' = r.self
            /\ lastOp' = [Op("predict_action_probabilities") EXCEPT
                             !.err = r.err, !.entered = r.entered,
                             !.length = tracker.length, !.ret = r.ret]
            /\ UNCHANGED <<backend, default_graph, disk>>
            /\ UNCHANGED <<featurizer_filter, build>>

\* persist(path), completed (written = 3) or stopped by a failing write
Persist ==
    \E written \in 0..3 :
        LET r == persist(policy, disk, written)
        IN  /\ policy.live
            /\ policy.model.present \/ written = 3
            /\ disk' = r.dir
            /\ lastOp' = [Op("persist") EXCEPT
                             !.err = r.err, !.warned = r.warned]
            /\ UNCHANGED <<backend, default_graph, policy>>
            /\ UNCHANGED <<featurizer_filter, build>>

\* KerasPolicy.load(path): the caller holds the instance it returns
Load ==
    LET r == load(disk)
    IN  /\ policy' = (IF r.err = "" THEN r.self ELSE policy)
        /\ lastOp' = [Op("load") EXCEPT !.err = r.err]
        /\ UNCHANGED <<backend, default_graph, disk>>
        /\ UNCHANGED <<featurizer_filter, build>>

\* a process that keeps the default graph it started with
Next ==
    \/ Construct
    \/ Train
    \/ ContinueTraining
    \/ Predict
    \/ Persist
    \/ Load

Spec == Init /\ [][Next]_vars

\* calls of model_architecture on a constructed policy, for every shape
InitArchitecture ==
    /\ backend \in {"tensorflow", "theano"}
    /\ default_graph = "g1"
    /\ policy = KerasPolicy(NoModel, NoGraph, 0)
    /\ disk = NoDirectory
    /\ lastOp = Op("__init__")
    /\ featurizer_filter = None
    /\ build = NoBuild

NextArchitecture == ModelArchitecture

SpecArchitecture == InitArchitecture /\ [][NextArchitecture]_vars

\* a tensorflow process that creates further graphs, makes them the default
\* graph and hands them to the constructor
InitGraphs == Init /\ backend = "tensorflow"

NextGraphs ==
    \/ Construct
    \/ ConstructWithGraph
    \/ SetDefaultGraph
    \/ Train
    \/ Predict
    \/ Persist
    \/ Load

SpecGraphs == InitGraphs /\ [][NextGraphs]_vars

\* ------------------------------------------- calls of convert_to_data_format
\* A caller holds one featurizers list and is about to convert one set of
\* examples: in training mode (no fake features, or the empty dict) or with
\* the fake features of a training call made with the same featurizers.
\* The dialogue dimension is kept for lists of dialogues and dropped for the
\* flat form.
InitBuild ==
    /\ backend = "tensorflow"
    /\ default_graph = "g1"
    /\ policy = NoPolicy
    /\ disk = NoDirectory
    /\ lastOp = Op("init")
    /\ featurizer_filter \in FeaturizerFilters
    /\ build \in { BuildCall(raw, fake_features, ~raw.flat) :
                     raw \in RawFeatures,
                     fake_features \in {NoFakeFeatures}
                                       \cup TrainedFakeFeatures(featurizer_filter) }

\* convert_to_data_format is called with the arguments of `build` and the
\* caller's featurizers list, for the first time or once more
Build ==
    /\ build.calls < MaxBuilds
    /\ \E order \in IterationOrders(collect_attributes(unify_format(build.raw))) :
      \E r \in { convert_to_data_format(
                     build.raw, build.fake_features,
                     build.consider_dialogue_dimension, featurizer_filter,
                     order) } :
            /\ build' = [build EXCEPT !.calls = @ + 1, !.err = r.err,
                                      !.data = r.data,
                                      !.fake_out = r.fake_features]
            /\ featurizer_filter' = r.featurizers
            /\ UNCHANGED <<backend, default_graph, policy, disk, lastOp>>

NextBuild == Build

SpecBuild == InitBuild /\ [][NextBuild]_vars

TypeOK ==
    /\ backend \in {"tensorflow", "theano"}
    /\ default_graph \in Graphs
    /\ policy.current_epoch \in 0..MaxEpoch
    /\ policy.graph \in {NoGraph} \cup Graphs

\* ------------------------------------------------------------- properties
PREDICT == "predict_action_probabilities"

\* the architecture of a model: its layer stack and its dimensions
Architecture(model) ==
    <<model.kind, model.input_shape, model.units, model.hidden>>

\* C1: on an instance without a model, continue_training and
\* predict_action_probabilities fail with NotTrainedError.
C1_NotTrainedErrorRaised ==
    (lastOp.name \in {"continue_training", PREDICT} /\ ~policy.model.present)
        => lastOp.err = "NotTrainedError"

\* C2: load on an existing directory without a weights file returns an
\* instance without a model, whatever else the directory holds.
C2_NoWeightsFileLoadsUntrained ==
    (lastOp.name = "load" /\ disk.exists /\ ~disk.weights.present)
        => (lastOp.err = "" /\ policy.live /\ ~policy.model.present)

\* C3: persist on an instance without a model warns, raises nothing and
\* leaves the directory exactly as it was.
C3_PersistUntrainedWritesNothing ==
    [][(policy.live /\ ~policy.model.present /\ lastOp'.name = "persist")
          => (disk' = disk /\ lastOp'.err = "" /\ lastOp'.warned)]_vars

C3_Witness ==
    /\ lastOp.name = "persist"
    /\ lastOp.warned
    /\ policy.live
    /\ ~policy.model.present

\* C4: load right after a completed persist of a trained instance returns an
\* instance with the architecture, the weights and the epoch counter of the
\* persisted one, whose model computes the same output for every tracker.
C4_PersistLoadRoundTrip ==
    [][(/\ lastOp.name = "persist"
        /\ lastOp.err = ""
        /\ policy.model.present
        /\ lastOp'.name = "load")
          => (/\ lastOp'.err = ""
              /\ policy'.live
              /\ policy'.model.present
              /\ Architecture(policy'.model) = Architecture(policy.model)
              /\ policy'.model.weights = policy.model.weights
              /\ policy'.current_epoch = policy.current_epoch
              /\ \A t \in Trackers :
                    select_row(model_predict(policy'.model, 1, t.padded),
                               [i \in {0} |-> t.length])
                  = select_row(model_predict(policy.model, 1, t.padded),
                               [i \in {0} |-> t.length]))]_vars

\* a policy loaded from a persist made after train and continue_training
C4_Witness ==
    /\ lastOp.name = "load"
    /\ lastOp.err = ""
    /\ policy.model.present
    /\ policy.model.weights # InitialWeights
    /\ policy.current_epoch > MaxTrainEpochs
    /\ disk.weights.present
    /\ disk.weights.weights = policy.model.weights

\* C5 as stated: a successful continue_training runs one fit pass whose
\* initial epoch is the counter at the start of the call and leaves the
\* counter one higher; train leaves the counter at its epochs.
C5_FitStartsAtOldCounter ==
    [][((lastOp'.name = "continue_training" /\ lastOp'.err = ""
            /\ policy.model.present)
          => (/\ lastOp'.fitted
              /\ lastOp'.fit_initial_epoch = policy.current_epoch
              /\ lastOp'.fit_epochs = lastOp'.fit_initial_epoch + 1
              /\ policy'.current_epoch = policy.current_epoch + 1))
       /\ ((lastOp'.name = "train" /\ lastOp'.err = ""
            /\ lastOp'.kwargs.has_epochs)
          => policy'.current_epoch = lastOp'.kwargs.epochs)]_vars

\* C5 amended: the fit pass starts at the counter after its increment, one
\* more than the counter at the start of the call.
C5_FitStartsAtNewCounter ==
    [][((lastOp'.name = "continue_training" /\ lastOp'.err = ""
            /\ policy.model.present)
          => (/\ lastOp'.fitted
              /\ lastOp'.fit_initial_epoch = policy.current_epoch + 1
              /\ lastOp'.fit_epochs = lastOp'.fit_initial_epoch + 1
              /\ policy'.current_epoch = policy.current_epoch + 1))
       /\ ((lastOp'.name = "train" /\ lastOp'.err = ""
            /\ lastOp'.kwargs.has_epochs)
          => policy'.current_epoch = lastOp'.kwargs.epochs)]_vars

\* two continue_training calls after train with epochs = MaxTrainEpochs - 1
C5_Witness ==
    /\ lastOp.name = "continue_training"
    /\ lastOp.err = ""
    /\ lastOp.fitted
    /\ policy.current_epoch = MaxTrainEpochs + 1
    /\ lastOp.fit_initial_epoch = policy.current_epoch

\* C6: train with zero trackers fails with EmptyTrainingSetError and leaves
\* the policy as it was.
C6_EmptyTrainingSetRejected ==
    [][(lastOp'.name = "train" /\ lastOp'.n = 0)
          => (lastOp'.err = "EmptyTrainingSetError" /\ policy' = policy)]_vars

\* C7: on one instance only train and continue_training change the model
\* or the epoch counter; predict_action_probabilities and persist leave both
\* unchanged; an instance with a model never loses it.
C7_OnlyTrainingMutates ==
    [][(policy.live /\ lastOp'.name \notin {"__init__", "load"})
          => (/\ (policy'.model # policy.model
                    \/ policy'.current_epoch # policy.current_epoch)
                   => lastOp'.name \in {"train", "continue_training"}
              /\ lastOp'.name \in {PREDICT, "persist"}
                   => (policy'.model = policy.model
                       /\ policy'.current_epoch = policy.current_epoch)
              /\ policy.model.present => policy'.model.present)]_vars

\* a trained policy that has just been persisted after a prediction
C7_Witness ==
    /\ lastOp.name = "persist"
    /\ lastOp.err = ""
    /\ policy.model.present
    /\ policy.model.weights # InitialWeights
    /\ policy.current_epoch > 0
    /\ disk.weights.present

\* C8: the graph predict_action_probabilities enters is the graph the
\* current model of the policy was built in.
C8_EntersGraphOfModel ==
    (lastOp.name = PREDICT /\ lastOp.entered # NoGraph /\ policy.model.present)
        => lastOp.entered = policy.model.graph

\* C9 as stated: (3, 3) raises; only (n,) selects the single-step classifier
\* and only (None, n) the per-turn labeler.
C9_NumericLeadingEntryRejected ==
    lastOp.name = "model_architecture"
        => (/\ lastOp.shape = <<3, 3>> => lastOp.err = "ValueError"
            /\ lastOp.built = "single_step" <=> Len(lastOp.shape) = 1
            /\ lastOp.built = "per_turn"
                 <=> (Len(lastOp.shape) = 2 /\ lastOp.shape[1] = NoneDim))

\* C9 amended: the rank alone selects: rank 1 the single-step classifier,
\* rank 2 the per-turn labeler, also for (3, 3); any other rank raises.
C9_RankAloneSelects ==
    lastOp.name = "model_architecture"
        => (/\ lastOp.built = "single_step" <=> Len(lastOp.shape) = 1
            /\ lastOp.built = "per_turn" <=> Len(lastOp.shape) = 2
            /\ lastOp.err = "ValueError" <=> Len(lastOp.shape) \notin {1, 2}
            /\ lastOp.err \in {"", "ValueError"})

C9_Witness ==
    /\ lastOp.name = "model_architecture"
    /\ lastOp.shape = <<3, 3>>
    /\ lastOp.built = "per_turn"
    /\ lastOp.err = ""

\* C10: a prediction that returns returns a list: the row of the last real
\* turn for one distribution per turn, the sole row for one per dialogue.
C10_AlwaysReturnsRow ==
    (lastOp.name = PREDICT /\ lastOp.err = "")
        => (/\ lastOp.ret.kind = "list"
            /\ OutputRank(policy.model) = 3
                 => lastOp.ret.val[3] = lastOp.length - 1
            /\ lastOp.ret.val[1] = policy.model.weights
            /\ lastOp.ret.val[2] = 0)

\* a directory that is empty or holds all three files of a persist
EmptyOrComplete(dir) ==
    \/ ~dir.arch.present /\ ~dir.config.present /\ ~dir.weights.present
    \/ dir.arch.present /\ dir.config.present /\ dir.weights.present

\* C15: after a persist that a failing write interrupts, on an empty
\* directory or on one holding a completed persist, load fails or returns an
\* instance without a model, or the interrupted call had written nothing and
\* the files of the earlier persist are loaded as they were.
C15_InterruptedPersistLoadsNoModel ==
    [][(/\ lastOp'.name = "persist"
        /\ lastOp'.err = "IOError"
        /\ EmptyOrComplete(disk))
          => (\/ load(disk').err # ""
              \/ ~load(disk').self.model.present
              \/ disk'.arch = disk.arch /\ disk'.config = disk.config
                   /\ disk'.weights = disk.weights)]_vars

\* C17: a continue_training call that raises leaves the epoch counter at
\* the value it had before the call.
C17_FailedCallKeepsCounter ==
    [][(lastOp'.name = "continue_training" /\ lastOp'.err # "")
          => policy'.current_epoch = policy.current_epoch]_vars

\* -------------------------------------- properties of convert_to_data_format
\* the attribute masks of attribute a in the Data of the last call
mask_of(a) == build.data.map[a][MASK][1].values

\* the matrix a FeatureArray holds for turn t of example e; without the
\* dialogue dimension an example has one matrix
matrix_at(array, e, t) ==
    IF array.number_of_dimensions = 4
    THEN array.values[e][t]
    ELSE array.values[e]

\* turn t of example e is within the FeatureArray
in_array(array, e, t) ==
    /\ e \in DOMAIN array.values
    /\ array.number_of_dimensions = 4 => t \in DOMAIN array.values[e]

\* the FeatureArrays of attribute a as <<bucket key, FeatureArray>>
arrays_of(a) ==
    UNION { { <<k, build.data.map[a][k][i]>> :
                i \in DOMAIN build.data.map[a][k] } :
            k \in DOMAIN build.data.map[a] \ {MASK} }

\* C11: in the Data returned by a call, for every attribute, the mask entry
\* of (example, turn) is 1 exactly when that turn of the input carries a
\* feature list for the attribute and 0 exactly when it does not; an
\* attribute of the input has one entry for every turn of every example; and
\* at every turn whose entry is 0 the FeatureArrays of the attribute hold
\* exactly the matrices of its fake features, each under its bucket key.
C11_MaskMarksPresentTurns ==
    (build.calls > 0 /\ build.err = "")
        => LET features == unify_format(build.raw)
           IN  \A a \in DOMAIN build.data.map :
                 LET carries(e, t) ==
                         /\ e \in DOMAIN features
                         /\ t \in DOMAIN features[e]
                         /\ a \in DOMAIN features[e][t]
                     template ==
                         { <<feature_key(a, f), f.features>> :
                             f \in Range(build.fake_out.map[a]) }
                 IN  /\ a \in collect_attributes(features)
                          => /\ DOMAIN mask_of(a) = DOMAIN features
                             /\ \A e \in DOMAIN features :
                                   DOMAIN mask_of(a)[e] = DOMAIN features[e]
                     /\ \A e \in DOMAIN mask_of(a) :
                          \A t \in DOMAIN mask_of(a)[e] :
                            /\ mask_of(a)[e][t] = <<1>> <=> carries(e, t)
                            /\ mask_of(a)[e][t] = <<0>> <=> ~carries(e, t)
                            /\ ~carries(e, t)
                                 => /\ \A p \in arrays_of(a) :
                                          in_array(p[2], e, t)
                                    /\ { <<p[1], matrix_at(p[2], e, t)>> :
                                           p \in arrays_of(a) } = template

\* a prediction call on one two-turn dialogue whose first turn alone carries
\* text: the text mask is (1, 0) and the entities, known from training and
\* absent from the input, are masked out in both turns
C11_Witness ==
    /\ build.calls > 0
    /\ build.err = ""
    /\ build.fake_features.given
    /\ DOMAIN build.data.map = {ENTITIES, TEXT}
    /\ mask_of(TEXT) = << << <<1>>, <<0>> >> >>
    /\ mask_of(ENTITIES) = << << <<0>>, <<0>> >> >>
    /\ Len(build.data.map[TEXT][SENTENCE]) = 2

\* C12: a call on a non-empty list of examples that is given the fake
\* features of a training call raises nothing, returns a Data whose attribute
\* keys are exactly the keys of the given fake features, and returns the given
\* fake features unchanged.
C12_PredictionKeepsTrainingAttributes ==
    (build.calls > 0 /\ build.fake_features.given /\ Len(build.raw.items) > 0)
        => /\ build.err = ""
           /\ DOMAIN build.data.map = DOMAIN build.fake_features.map
           /\ Range(build.data.keys) = DOMAIN build.fake_features.map
           /\ build.fake_out = build.fake_features

\* C13: a training call on an empty list of examples raises nothing and
\* returns an empty Data and empty fake features.
C13_EmptyTrainingSetGivesEmptyData ==
    (build.calls > 0 /\ ~build.fake_features.given /\ Len(build.raw.items) = 0)
        => /\ build.err = ""
           /\ build.data = EmptyData
           /\ build.fake_out.given
           /\ DOMAIN build.fake_out.map = {}

\* a FeatureArray of scipy.sparse matrices
is_sparse_array(array) == matrix_at(array, 1, 1).sparse

\* the Data has its attributes in ascending order and, in every bucket, the
\* sparse FeatureArray before the dense one
well_ordered(data) ==
    /\ \A i, j \in DOMAIN data.keys :
          i < j => str_less(data.keys[i], data.keys[j])
    /\ \A a \in DOMAIN data.map :
          \A k \in DOMAIN data.map[a] \ {MASK} :
             \A i, j \in DOMAIN data.map[a][k] :
                (i < j /\ is_sparse_array(data.map[a][k][j]))
                    => is_sparse_array(data.map[a][k][i])

\* C14: a training call repeated on the same examples with the same
\* featurizers list has the outcome of the call before it: the same fake
\* features for every attribute and the same Data, with the attributes in
\* ascending order, the same buckets with the sparse FeatureArray before the
\* dense one, and the same masks.
C14_RepeatedTrainingCallSameOutcome ==
    [][(/\ build.calls > 0
        /\ build'.calls = build.calls + 1
        /\ ~build.fake_features.given)
          => (/\ build'.err = build.err
              /\ build'.fake_out.map = build.fake_out.map
              /\ build'.data = build.data
              /\ well_ordered(build'.data))]_vars

\* a second training call on examples that carry both attributes, whose
\* attribute set was iterated text first, with sparse and dense sentence
\* features of text
C14_Witness ==
    /\ build.calls = MaxBuilds
    /\ build.err = ""
    /\ ~build.fake_features.given
    /\ build.fake_out.keys = <<TEXT, ENTITIES>>
    /\ build.data.keys = <<ENTITIES, TEXT>>
    /\ Len(build.data.map[TEXT][SENTENCE]) = 2

\* C16: in a call that is given fake features, an attribute of the fake
\* features that no turn of the input carries has a mask with one list per
\* example and, in it, one zero entry per turn of that example.
C16_AbsentAttributeMaskHasShapeOfExamples ==
    (/\ build.calls > 0
     /\ build.err = ""
     /\ build.fake_features.given
     /\ Len(build.fake_features.keys) > 0)
        => LET features == unify_format(build.raw)
           IN  \A a \in DOMAIN build.fake_features.map
                          \ collect_attributes(features) :
                 /\ a \in DOMAIN build.data.map
                 /\ DOMAIN mask_of(a) = DOMAIN features
                 /\ \A e \in DOMAIN mask_of(a) \cap DOMAIN features :
                      /\ DOMAIN mask_of(a)[e] = DOMAIN features[e]
                      /\ \A t \in DOMAIN mask_of(a)[e] :
                            mask_of(a)[e][t] = <<0>>

\* C18: a call leaves the featurizers list of the caller as it was.
C18_FeaturizersListUnchanged ==
    [][build'.calls = build.calls + 1
          => featurizer_filter' = featurizer_filter]_vars
====
